---------------------------- MODULE Spec2Model ----------------------------
(***************************************************************************)
(* A model of xprintidle.py: one invocation of the program, from the       *)
(* parsing of sys.argv to the exit of the process, against a mock of the   *)
(* X11 / Xss client libraries that records every call made on it.          *)
(*                                                                         *)
(* Text (standard output, standard error, arguments) is a sequence of      *)
(* one-character strings, so that lines can be counted and the human       *)
(* readable duration can be parsed back.                                   *)
(***************************************************************************)
EXTENDS Integers, Sequences, FiniteSets, TLC

VARIABLES
    pc,              \* position of the process in main()
    argv,            \* sys.argv: argv[1] is Python's sys.argv[0]
    server,          \* the X server the process runs against
    human_readable,  \* result of parse_args()
    dpy,             \* the Display handle: "NULL", "open" or "closed"
    ssi,             \* the XScreenSaverInfo buffer: "NULL", "allocated" or "freed"
    ssi_contents,    \* the fields of the buffer the program reads
    calls,           \* the collaborator calls made so far, in order
    idle_time,       \* return value of get_x_idletime()
    time_ms,         \* print_human_time: what is left to decompose
    i,               \* print_human_time: loop index (0-based, as in the code)
    first_print,     \* print_human_time: no term printed yet
    stdout,          \* text written to standard output
    stderr,          \* text written to standard error
    exit_code        \* exit status of the process, read when pc = "done"

vars == <<pc, argv, server, human_readable, dpy, ssi, ssi_contents, calls,
          idle_time, time_ms, i, first_print, stdout, stderr, exit_code>>

---------------------------------------------------------------------------
(* Bounds of the model *)

\* Magnitudes 0..MaxMag are tried for every unit of the idle time.
MaxMag == 2

---------------------------------------------------------------------------
(* Text *)

NL == "\n"

\* print(text) and print(text, end=""): what the call appends to a stream.
print(text) == text \o <<NL>>

print_end(text) == text

Digits == <<"0", "1", "2", "3", "4", "5", "6", "7", "8", "9">>

\* str(n) of a Python int, as an f-string or print() renders it.
RECURSIVE Dec(_)
Dec(n) ==
    IF n < 0 THEN <<"-">> \o Dec(-n)
    ELSE IF n < 10 THEN <<Digits[n + 1]>>
    ELSE Dec(n \div 10) \o <<Digits[(n % 10) + 1]>>

---------------------------------------------------------------------------
(* Command line *)

OptHelp == { <<"-", "h">>, <<"-", "-", "h", "e", "l", "p">> }

OptVersion == { <<"-", "v">>, <<"-", "-", "v", "e", "r", "s", "i", "o", "n">> }

OptHuman == { <<"-", "H">>,
              <<"-", "-", "h", "u", "m", "a", "n", "-", "r", "e", "a", "d", "a", "b", "l", "e">> }

\* print_usage(): seven print() calls, two of them starting with a newline.
print_usage(prog) ==
    print(<<"u", "s", "a", "g", "e", ":", " ">> \o prog \o <<" ", "[", "O", "P", "T", "I", "O", "N", "]">>)
    \o print(<<"Q", "u", "e", "r", "y", " ", "t", "h", "e", " ", "X", " ", "s", "e", "r", "v", "e", "r", " ", "f", "o", "r", " ", "t", "h", "e", " ", "u", "s", "e", "r", "'", "s", " ", "i", "d", "l", "e", " ", "t", "i", "m", "e">>)
    \o print(<<NL, "O", "p", "t", "i", "o", "n", "s", ":">>)
    \o print(<<" ", " ", "-", "h", ",", " ", "-", "-", "h", "e", "l", "p", " ", " ", " ", " ", " ", " ", " ", " ", " ", " ", " ", " ", " ", " ", "S", "h", "o", "w", " ", "t", "h", "i", "s", " ", "t", "e", "x", "t">>)
    \o print(<<" ", " ", "-", "H", ",", " ", "-", "-", "h", "u", "m", "a", "n", "-", "r", "e", "a", "d", "a", "b", "l", "e", " ", " ", " ", " ", "O", "u", "t", "p", "u", "t", " ", "t", "h", "e", " ", "t", "i", "m", "e", " ", "i", "n", " ", "a", " ", "h", "u", "m", "a", "n", " ", "r", "e", "a", "d", "a", "b", "l", "e", " ", "f", "o", "r", "m", "a", "t">>)
    \o print(<<" ", " ", "-", "v", ",", " ", "-", "-", "v", "e", "r", "s", "i", "o", "n", " ", " ", " ", " ", " ", " ", " ", " ", " ", " ", " ", "P", "r", "i", "n", "t", " ", "t", "h", "e", " ", "p", "r", "o", "g", "r", "a", "m", " ", "v", "e", "r", "s", "i", "o", "n">>)
    \o print(<<NL, "R", "e", "p", "o", "r", "t", " ", "b", "u", "g", "s", " ", "a", "t", ":", " ", "h", "t", "t", "p", "s", ":", "/", "/", "g", "i", "t", "h", "u", "b", ".", "c", "o", "m", "/", "g", "0", "h", "l", "1", "n", "/", "x", "p", "r", "i", "n", "t", "i", "d", "l", "e", "/", "i", "s", "s", "u", "e", "s">>)

\* print_version()
print_version ==
    print(<<"x", "p", "r", "i", "n", "t", "i", "d", "l", "e", " ", "n", "/", "a">>)

\* The diagnostics of get_x_idletime(), each one print(..., file=sys.stderr).
MsgNoDisplay ==
    print(<<"c", "o", "u", "l", "d", "n", "'", "t", " ", "o", "p", "e", "n", " ", "d", "i", "s", "p", "l", "a", "y">>)

MsgNoAlloc ==
    print(<<"c", "o", "u", "l", "d", "n", "'", "t", " ", "a", "l", "l", "o", "c", "a", "t", "e", " ", "s", "c", "r", "e", "e", "n", " ", "s", "a", "v", "e", "r", " ", "i", "n", "f", "o">>)

MsgNoQuery ==
    print(<<"c", "o", "u", "l", "d", "n", "'", "t", " ", "q", "u", "e", "r", "y", " ", "s", "c", "r", "e", "e", "n", " ", "s", "a", "v", "e", "r", " ", "i", "n", "f", "o">>)

---------------------------------------------------------------------------
(* print_human_time: its tables *)

conv_facs == <<24 * 60 * 60 * 1000, 60 * 60 * 1000, 60 * 1000, 1000, 1>>

names == << <<"d", "a", "y">>,
            <<"h", "o", "u", "r">>,
            <<"m", "i", "n", "u", "t", "e">>,
            <<"s", "e", "c", "o", "n", "d">>,
            <<"m", "i", "l", "l", "i", "s", "e", "c", "o", "n", "d">> >>

---------------------------------------------------------------------------
(* Inputs *)

ProgNames == { <<"x", "p", "r", "i", "n", "t", "i", "d", "l", "e">>, <<".", "/", "x", "p">> }

\* The arguments after the program name.
ArgLists ==
    { <<>> }
    \cup { <<o>> : o \in OptHelp \cup OptVersion \cup OptHuman }
    \cup { << <<"-", "x">> >>,
           << <<"-", "H">>, <<"-", "h">> >>,
           << <<"-", "v">>, <<"-", "H">> >> }

\* Idle times the server may report: for each unit, a small magnitude or one
\* of several digits, in every combination.
IdleValues ==
    { d * conv_facs[1] + h * conv_facs[2] + m * conv_facs[3] + s * conv_facs[4] + ms :
        d \in 0..MaxMag,
        h \in (0..MaxMag) \cup {23},
        m \in (0..MaxMag) \cup {59},
        s \in (0..MaxMag) \cup {30},
        ms \in (0..MaxMag) \cup {999} }


---------------------------------------------------------------------------
(* The mock of the client libraries *)

\* One entry of the call log: the function called and whether it succeeded.
Call(fn, ok) == [fn |-> fn, ok |-> ok]

\* The buffer XScreenSaverAllocInfo returns is not initialised: it is
\* populated by a successful XScreenSaverQueryInfo only.
NoContents == [populated |-> FALSE, idle |-> 0]

---------------------------------------------------------------------------
(* Initial state: the process has started, nothing has run yet *)

Init ==
    /\ pc = "start"
    /\ argv \in { <<p>> \o a : p \in ProgNames, a \in ArgLists }
    /\ server \in [display : BOOLEAN, extension : BOOLEAN]
    /\ human_readable = FALSE
    /\ dpy = "NULL"
    /\ ssi = "NULL"
    /\ ssi_contents = NoContents
    /\ calls = <<>>
    /\ idle_time = 0
    /\ time_ms = 0
    /\ i = 0
    /\ first_print = TRUE
    /\ stdout = <<>>
    /\ stderr = <<>>
    /\ exit_code = 0

---------------------------------------------------------------------------
(* parse_args(), called first by main() *)

\* A bug parse_args could have: the usage is printed without leaving.
ParseArgs_HelpFallsThrough ==
    /\ pc = "start"
    /\ IF Len(argv) > 1 /\ argv[2] \in OptHelp
       THEN /\ stdout' = stdout \o print_usage(argv[1])
            /\ pc' = "open"
            /\ UNCHANGED <<human_readable, exit_code>>
       ELSE IF Len(argv) > 1 /\ argv[2] \in OptVersion
       THEN /\ stdout' = stdout \o print_version
            /\ exit_code' = 0
            /\ pc' = "done"
            /\ UNCHANGED human_readable
       ELSE /\ human_readable' = (Len(argv) > 1 /\ argv[2] \in OptHuman)
            /\ pc' = "open"
            /\ UNCHANGED <<stdout, exit_code>>
    /\ UNCHANGED <<argv, server, dpy, ssi, ssi_contents, calls, idle_time,
                   time_ms, i, first_print, stderr>>

ParseArgs ==
    /\ pc = "start"
    /\ IF Len(argv) > 1 /\ argv[2] \in OptHelp
       THEN /\ stdout' = stdout \o print_usage(argv[1])
            /\ exit_code' = 1
            /\ pc' = "done"
            /\ UNCHANGED human_readable
       ELSE IF Len(argv) > 1 /\ argv[2] \in OptVersion
       THEN /\ stdout' = stdout \o print_version
            /\ exit_code' = 0
            /\ pc' = "done"
            /\ UNCHANGED human_readable
       ELSE /\ human_readable' = (Len(argv) > 1 /\ argv[2] \in OptHuman)
            /\ pc' = "open"
            /\ UNCHANGED <<stdout, exit_code>>
    /\ UNCHANGED <<argv, server, dpy, ssi, ssi_contents, calls, idle_time,
                   time_ms, i, first_print, stderr>>

---------------------------------------------------------------------------
(* get_x_idletime() *)

\* dpy = XOpenDisplay(None); if not dpy: ... return -1
OpenDisplay ==
    /\ pc = "open"
    /\ calls' = Append(calls, Call("XOpenDisplay", server.display))
    /\ IF server.display
       THEN /\ dpy' = "open"
            /\ pc' = "alloc"
            /\ UNCHANGED <<stderr, idle_time>>
       ELSE /\ dpy' = "NULL"
            /\ stderr' = stderr \o MsgNoDisplay
            /\ idle_time' = -1
            /\ pc' = "main"
    /\ UNCHANGED <<argv, server, human_readable, ssi, ssi_contents, time_ms, i,
                   first_print, stdout, exit_code>>

\* A bug the allocation step could have: no XCloseDisplay on its failure path.
AllocInfo_LeakDisplay ==
    /\ pc = "alloc"
    /\ \E ok \in BOOLEAN :
        IF ok
        THEN /\ calls' = Append(calls, Call("XScreenSaverAllocInfo", TRUE))
             /\ ssi' = "allocated"
             /\ pc' = "query"
             /\ UNCHANGED <<dpy, stderr, idle_time>>
        ELSE /\ calls' = calls \o <<Call("XScreenSaverAllocInfo", FALSE)>>
             /\ ssi' = "NULL"
             /\ stderr' = stderr \o MsgNoAlloc
             /\ idle_time' = -1
             /\ pc' = "main"
             /\ UNCHANGED dpy
    /\ UNCHANGED <<argv, server, human_readable, ssi_contents, time_ms, i,
                   first_print, stdout, exit_code>>

\* ssi = XScreenSaverAllocInfo(); if not ssi: ... XCloseDisplay(dpy); return -1
\* The allocation is client-side and may fail whatever the server is.
AllocInfo ==
    /\ pc = "alloc"
    /\ \E ok \in BOOLEAN :
        IF ok
        THEN /\ calls' = Append(calls, Call("XScreenSaverAllocInfo", TRUE))
             /\ ssi' = "allocated"
             /\ pc' = "query"
             /\ UNCHANGED <<dpy, stderr, idle_time>>
        ELSE /\ calls' = calls \o <<Call("XScreenSaverAllocInfo", FALSE),
                                    Call("XCloseDisplay", TRUE)>>
             /\ ssi' = "NULL"
             /\ stderr' = stderr \o MsgNoAlloc
             /\ dpy' = "closed"
             /\ idle_time' = -1
             /\ pc' = "main"
    /\ UNCHANGED <<argv, server, human_readable, ssi_contents, time_ms, i,
                   first_print, stdout, exit_code>>

\* A bug the query step could have: no XFree on its failure path.
QueryInfo_LeakBuffer ==
    /\ pc = "query"
    /\ \/ /\ server.extension
          /\ \E idle \in IdleValues :
                ssi_contents' = [populated |-> TRUE, idle |-> idle]
          /\ calls' = calls \o <<Call("XDefaultRootWindow", TRUE),
                                 Call("XScreenSaverQueryInfo", TRUE)>>
          /\ pc' = "read"
          /\ UNCHANGED <<dpy, ssi, stderr, idle_time>>
       \/ /\ calls' = calls \o <<Call("XDefaultRootWindow", TRUE),
                                 Call("XScreenSaverQueryInfo", FALSE),
                                 Call("XCloseDisplay", TRUE)>>
          /\ stderr' = stderr \o MsgNoQuery
          /\ dpy' = "closed"
          /\ idle_time' = -1
          /\ pc' = "main"
          /\ UNCHANGED <<ssi, ssi_contents>>
    /\ UNCHANGED <<argv, server, human_readable, time_ms, i, first_print,
                   stdout, exit_code>>

\* root_window = DefaultRootWindow(dpy)
\* if not XScreenSaverQueryInfo(dpy, root_window, ssi): ... XFree; XCloseDisplay; return -1
\* The query can succeed only on a server that has the screen saver extension;
\* a successful query stores the idle time the server reports in the buffer.
QueryInfo ==
    /\ pc = "query"
    /\ \/ /\ server.extension
          /\ \E idle \in IdleValues :
                ssi_contents' = [populated |-> TRUE, idle |-> idle]
          /\ calls' = calls \o <<Call("XDefaultRootWindow", TRUE),
                                 Call("XScreenSaverQueryInfo", TRUE)>>
          /\ pc' = "read"
          /\ UNCHANGED <<dpy, ssi, stderr, idle_time>>
       \/ /\ calls' = calls \o <<Call("XDefaultRootWindow", TRUE),
                                 Call("XScreenSaverQueryInfo", FALSE),
                                 Call("XFree", TRUE),
                                 Call("XCloseDisplay", TRUE)>>
          /\ stderr' = stderr \o MsgNoQuery
          /\ ssi' = "freed"
          /\ dpy' = "closed"
          /\ idle_time' = -1
          /\ pc' = "main"
          /\ UNCHANGED ssi_contents
    /\ UNCHANGED <<argv, server, human_readable, time_ms, i, first_print,
                   stdout, exit_code>>

\* A bug the last step could have: the idle field is read after the XFree.
ReadIdle_AfterFree ==
    /\ pc = "read"
    /\ idle_time' = ssi_contents.idle
    /\ calls' = calls \o <<Call("XFree", TRUE),
                           Call("ssi.contents.idle", TRUE),
                           Call("XCloseDisplay", TRUE)>>
    /\ ssi' = "freed"
    /\ dpy' = "closed"
    /\ pc' = "main"
    /\ UNCHANGED <<argv, server, human_readable, ssi_contents, time_ms, i,
                   first_print, stdout, stderr, exit_code>>

\* idle_time = ssi.contents.idle; XFree(ssi); XCloseDisplay(dpy); return idle_time
ReadIdle ==
    /\ pc = "read"
    /\ idle_time' = ssi_contents.idle
    /\ calls' = calls \o <<Call("ssi.contents.idle", TRUE),
                           Call("XFree", TRUE),
                           Call("XCloseDisplay", TRUE)>>
    /\ ssi' = "freed"
    /\ dpy' = "closed"
    /\ pc' = "main"
    /\ UNCHANGED <<argv, server, human_readable, ssi_contents, time_ms, i,
                   first_print, stdout, stderr, exit_code>>

---------------------------------------------------------------------------
(* main(), after get_x_idletime() has returned *)

\* A bug main could have: the -1 of a failed query is not checked.
Main_IgnoresFailure ==
    /\ pc = "main"
    /\ IF human_readable
       THEN /\ time_ms' = idle_time
            /\ i' = 0
            /\ first_print' = TRUE
            /\ pc' = "human"
            /\ UNCHANGED <<stdout, exit_code>>
       ELSE /\ stdout' = stdout \o print(Dec(idle_time))
            /\ exit_code' = 0
            /\ pc' = "done"
            /\ UNCHANGED <<time_ms, i, first_print>>
    /\ UNCHANGED <<argv, server, human_readable, dpy, ssi, ssi_contents, calls,
                   idle_time, stderr>>

\* A bug main could have: the raw value is printed in human-readable mode too.
Main_AlsoPrintsRaw ==
    /\ pc = "main"
    /\ IF idle_time = -1
       THEN /\ exit_code' = 1
            /\ pc' = "done"
            /\ UNCHANGED <<stdout, time_ms, i, first_print>>
       ELSE IF human_readable
       THEN /\ stdout' = stdout \o print(Dec(idle_time))
            /\ time_ms' = idle_time
            /\ i' = 0
            /\ first_print' = TRUE
            /\ pc' = "human"
            /\ UNCHANGED exit_code
       ELSE /\ stdout' = stdout \o print(Dec(idle_time))
            /\ exit_code' = 0
            /\ pc' = "done"
            /\ UNCHANGED <<time_ms, i, first_print>>
    /\ UNCHANGED <<argv, server, human_readable, dpy, ssi, ssi_contents, calls,
                   idle_time, stderr>>

Main ==
    /\ pc = "main"
    /\ IF idle_time = -1
       THEN /\ exit_code' = 1
            /\ pc' = "done"
            /\ UNCHANGED <<stdout, time_ms, i, first_print>>
       ELSE IF human_readable
       THEN /\ time_ms' = idle_time
            /\ i' = 0
            /\ first_print' = TRUE
            /\ pc' = "human"
            /\ UNCHANGED <<stdout, exit_code>>
       ELSE /\ stdout' = stdout \o print(Dec(idle_time))
            /\ exit_code' = 0
            /\ pc' = "done"
            /\ UNCHANGED <<time_ms, i, first_print>>
    /\ UNCHANGED <<argv, server, human_readable, dpy, ssi, ssi_contents, calls,
                   idle_time, stderr>>

---------------------------------------------------------------------------
(* print_human_time(time_ms) *)

\* A bug the term could have: the "s" is printed whatever the magnitude.
HumanTerm_AlwaysPlural(unit_mag, k) ==
    print_end(Dec(unit_mag) \o <<" ">> \o names[k + 1]) \o print_end(<<"s">>)

\* print(f"{unit_mag} {names[i]}", end=""); if unit_mag != 1: print("s", end="")
HumanTerm(unit_mag, k) ==
    print_end(Dec(unit_mag) \o <<" ">> \o names[k + 1])
    \o (IF unit_mag # 1 THEN print_end(<<"s">>) ELSE <<>>)

\* A bug the loop could have: a unit of magnitude 0 is not skipped.
HumanLoop_NoSkip ==
    /\ pc = "human"
    /\ i < Len(conv_facs)
    /\ LET unit_mag == time_ms \div conv_facs[i + 1]
       IN  /\ time_ms' = time_ms % conv_facs[i + 1]
           /\ stdout' = stdout
                        \o (IF ~first_print THEN print_end(<<",", " ">>) ELSE <<>>)
                        \o HumanTerm(unit_mag, i)
           /\ first_print' = FALSE
    /\ i' = i + 1
    /\ UNCHANGED <<pc, argv, server, human_readable, dpy, ssi, ssi_contents,
                   calls, idle_time, stderr, exit_code>>

\* A bug the loop could have: time_ms is not reduced by the unit printed.
HumanLoop_NoReduce ==
    /\ pc = "human"
    /\ i < Len(conv_facs)
    /\ LET unit_mag == time_ms \div conv_facs[i + 1]
       IN  /\ time_ms' = time_ms
           /\ IF unit_mag = 0
              THEN UNCHANGED <<stdout, first_print>>
              ELSE /\ stdout' = stdout
                                \o (IF ~first_print THEN print_end(<<",", " ">>) ELSE <<>>)
                                \o HumanTerm(unit_mag, i)
                   /\ first_print' = FALSE
    /\ i' = i + 1
    /\ UNCHANGED <<pc, argv, server, human_readable, dpy, ssi, ssi_contents,
                   calls, idle_time, stderr, exit_code>>

\* One iteration of the loop over conv_facs.
HumanLoop ==
    /\ pc = "human"
    /\ i < Len(conv_facs)
    /\ LET unit_mag == time_ms \div conv_facs[i + 1]
       IN  /\ time_ms' = time_ms % conv_facs[i + 1]
           /\ IF unit_mag = 0
              THEN UNCHANGED <<stdout, first_print>>
              ELSE /\ stdout' = stdout
                                \o (IF ~first_print THEN print_end(<<",", " ">>) ELSE <<>>)
                                \o HumanTerm(unit_mag, i)
                   /\ first_print' = FALSE
    /\ i' = i + 1
    /\ UNCHANGED <<pc, argv, server, human_readable, dpy, ssi, ssi_contents,
                   calls, idle_time, stderr, exit_code>>

\* After the loop: the fallback term, the newline, and main() returns.
HumanEnd ==
    /\ pc = "human"
    /\ i = Len(conv_facs)
    /\ stdout' = stdout
                 \o (IF first_print
                     THEN print_end(<<"0", " ">> \o names[Len(names)] \o <<"s">>)
                     ELSE <<>>)
                 \o print(<<>>)
    /\ exit_code' = 0
    /\ pc' = "done"
    /\ UNCHANGED <<argv, server, human_readable, dpy, ssi, ssi_contents, calls,
                   idle_time, time_ms, i, first_print, stderr>>

---------------------------------------------------------------------------

Next ==
    \/ ParseArgs
    \/ OpenDisplay
    \/ AllocInfo
    \/ QueryInfo
    \/ ReadIdle
    \/ Main
    \/ HumanLoop
    \/ HumanEnd

Spec == Init /\ [][Next]_vars

---------------------------------------------------------------------------
(* Reading the call log *)

Count(fn) == Cardinality({ k \in DOMAIN calls : calls[k].fn = fn })

CountOk(fn) == Cardinality({ k \in DOMAIN calls : calls[k].fn = fn /\ calls[k].ok })

Failed(fn) == \E k \in DOMAIN calls : calls[k].fn = fn /\ ~calls[k].ok

\* get_x_idletime() has returned, or was never called and never will be.
Returned == pc \in {"main", "human", "done"}

HelpGiven == Len(argv) > 1 /\ argv[2] \in OptHelp

VersionGiven == Len(argv) > 1 /\ argv[2] \in OptVersion

HumanGiven == Len(argv) > 1 /\ argv[2] \in OptHuman

\* The process has ended in raw or human-readable mode.
QueryModeDone == pc = "done" /\ ~HelpGiven /\ ~VersionGiven

QueryFailed ==
    Failed("XOpenDisplay") \/ Failed("XScreenSaverAllocInfo") \/ Failed("XScreenSaverQueryInfo")

---------------------------------------------------------------------------
(* Reading text back *)

\* The number of lines of a text: each line ends with a newline.
Lines(text) == Cardinality({ k \in DOMAIN text : text[k] = NL })

\* One complete line and nothing else.
OneLine(text) == Len(text) >= 1 /\ text[Len(text)] = NL /\ Lines(text) = 1

DigitVal(c) == CHOOSE d \in 0..9 : Digits[d + 1] = c

IsDigit(c) == \E d \in 0..9 : Digits[d + 1] = c

\* A decimal numeral: digits only, no leading zero except "0" itself.
IsNumeral(t) ==
    /\ Len(t) >= 1
    /\ \A k \in DOMAIN t : IsDigit(t[k])
    /\ Len(t) > 1 => t[1] # "0"

RECURSIVE NumeralVal(_)
NumeralVal(t) ==
    IF Len(t) = 0 THEN 0
    ELSE 10 * NumeralVal(SubSeq(t, 1, Len(t) - 1)) + DigitVal(t[Len(t)])

\* The duration units of the human readable format, largest first.
UnitNames == << <<"d", "a", "y">>,
                <<"h", "o", "u", "r">>,
                <<"m", "i", "n", "u", "t", "e">>,
                <<"s", "e", "c", "o", "n", "d">>,
                <<"m", "i", "l", "l", "i", "s", "e", "c", "o", "n", "d">> >>

UnitMillis == <<86400000, 3600000, 60000, 1000, 1>>

\* The pieces of a text between the occurrences of ", ".
RECURSIVE SplitTerms(_)
SplitTerms(t) ==
    LET seps == { k \in 1..(Len(t) - 1) : t[k] = "," /\ t[k + 1] = " " }
    IN  IF seps = {} THEN <<t>>
        ELSE LET k == CHOOSE x \in seps : \A y \in seps : x <= y
             IN  <<SubSeq(t, 1, k - 1)>> \o SplitTerms(SubSeq(t, k + 2, Len(t)))

\* One term "<magnitude> <unit>[s]" read back: unit = 0 when it is no term.
ParseTerm(t) ==
    LET sps == { k \in DOMAIN t : t[k] = " " }
        sp == IF sps = {} THEN 0 ELSE CHOOSE x \in sps : \A y \in sps : x <= y
        num == SubSeq(t, 1, sp - 1)
        word == SubSeq(t, sp + 1, Len(t))
        us == { u \in DOMAIN UnitNames : word = UnitNames[u] \/ word = UnitNames[u] \o <<"s">> }
    IN  IF sp = 0 \/ ~IsNumeral(num) \/ us = {}
        THEN [unit |-> 0, mag |-> 0, plural |-> FALSE]
        ELSE LET u == CHOOSE x \in us : TRUE
             IN  [unit |-> u, mag |-> NumeralVal(num), plural |-> word # UnitNames[u]]

\* The terms of one line of human readable output, in the order written.
ParseHuman(text) ==
    LET body == SubSeq(text, 1, Len(text) - 1)
        parts == SplitTerms(body)
    IN  [k \in DOMAIN parts |-> ParseTerm(parts[k])]

\* Every piece of the line is a term: nothing before, between or after them
\* but the ", " separators.
WellFormed(text) ==
    /\ OneLine(text)
    /\ \A k \in DOMAIN ParseHuman(text) : ParseHuman(text)[k].unit # 0

RECURSIVE SumTerms(_)
SumTerms(ts) ==
    IF Len(ts) = 0 THEN 0
    ELSE ts[1].mag * UnitMillis[ts[1].unit] + SumTerms(Tail(ts))

\* print_human_time has written its whole output for idle_time.
HumanDone == pc = "done" /\ HumanGiven /\ ~QueryFailed

\* The process has ended after a successful query in raw mode.
RawDone == pc = "done" /\ ~HelpGiven /\ ~VersionGiven /\ ~HumanGiven /\ ~QueryFailed

---------------------------------------------------------------------------
(* Release of the connection and of the buffer *)

\* C1: XCloseDisplay is never called more often than XOpenDisplay succeeded
\* (so never when the open failed), and once get_x_idletime has returned it
\* has been called exactly once for a successful open, on every exit path:
\* success, allocation failure, query failure.
C1_CloseExactlyOnce ==
    /\ Count("XCloseDisplay") <= CountOk("XOpenDisplay")
    /\ Failed("XOpenDisplay") => Count("XCloseDisplay") = 0
    /\ Returned => /\ Count("XCloseDisplay") = CountOk("XOpenDisplay")
                   /\ CountOk("XOpenDisplay") = 1 => dpy = "closed"

\* The allocation failed after a successful open, and the connection was closed.
C1_Witness ==
    /\ pc = "done"
    /\ CountOk("XOpenDisplay") = 1
    /\ Failed("XScreenSaverAllocInfo")
    /\ Count("XCloseDisplay") = 1

\* C2: XFree is never called more often than XScreenSaverAllocInfo succeeded
\* (so never after a null or missing allocation), and once get_x_idletime has
\* returned it has been called exactly once per successful allocation,
\* whether the query succeeded or failed.
C2_FreeExactlyOnce ==
    /\ Count("XFree") <= CountOk("XScreenSaverAllocInfo")
    /\ Returned => /\ Count("XFree") = CountOk("XScreenSaverAllocInfo")
                   /\ CountOk("XScreenSaverAllocInfo") = 1 => ssi = "freed"

\* The query failed on an allocated buffer, and the buffer was released.
C2_Witness ==
    /\ pc = "done"
    /\ CountOk("XScreenSaverAllocInfo") = 1
    /\ Failed("XScreenSaverQueryInfo")
    /\ Count("XFree") = 1

---------------------------------------------------------------------------
(* Extension negotiation *)

MsgNoExtension ==
    print(<<"s", "c", "r", "e", "e", "n", " ", "s", "a", "v", "e", "r", " ", "e", "x", "t", "e", "n", "s", "i", "o", "n", " ", "n", "o", "t", " ", "s", "u", "p", "p", "o", "r", "t", "e", "d">>)

\* C3: on a server without the screen saver extension, once the display is
\* open, the run ends with the diagnostic "screen saver extension not
\* supported", a non-zero exit status, no buffer allocation and no status
\* query; and any allocation is preceded by the extension query.
C3_NegotiatesExtension ==
    /\ (pc = "done" /\ CountOk("XOpenDisplay") = 1 /\ ~server.extension) =>
           /\ stderr = MsgNoExtension
           /\ exit_code # 0
           /\ Count("XScreenSaverAllocInfo") = 0
           /\ Count("XScreenSaverQueryInfo") = 0
    /\ pc = "done" =>
           \A k \in DOMAIN calls :
               calls[k].fn = "XScreenSaverAllocInfo" =>
                   \E j \in 1..(k - 1) : calls[j].fn = "XScreenSaverQueryExtension"

---------------------------------------------------------------------------
(* Exit status and streams *)

\* C4: in raw or human-readable mode the process exits with status 1 exactly
\* when the open, the allocation or the query failed, and then standard error
\* holds exactly one line and standard output nothing; otherwise it exits
\* with status 0 and standard error is empty.
C4_ExitStatus ==
    QueryModeDone =>
        /\ exit_code = 1 <=> QueryFailed
        /\ QueryFailed => OneLine(stderr) /\ stdout = <<>>
        /\ ~QueryFailed => exit_code = 0 /\ stderr = <<>>

\* The status query failed in human-readable mode.
C4_Witness ==
    /\ QueryModeDone
    /\ HumanGiven
    /\ Failed("XScreenSaverQueryInfo")
    /\ exit_code = 1
    /\ stderr = MsgNoQuery

---------------------------------------------------------------------------
(* print_human_time *)

\* C5 as stated: no term of the output of print_human_time has magnitude 0.
C5_NoZeroTerm ==
    HumanDone =>
        /\ WellFormed(stdout)
        /\ \A k \in DOMAIN ParseHuman(stdout) : ParseHuman(stdout)[k].mag # 0

\* C5, amended: for m > 0 no term of the output has magnitude 0; for m = 0
\* the output is the single term "0 milliseconds".
C5_NoZeroTermUnlessZero ==
    HumanDone =>
        /\ WellFormed(stdout)
        /\ idle_time > 0 =>
               \A k \in DOMAIN ParseHuman(stdout) : ParseHuman(stdout)[k].mag # 0
        /\ idle_time = 0 =>
               ParseHuman(stdout) = <<[unit |-> 5, mag |-> 0, plural |-> TRUE]>>

\* An idle time with units of magnitude 0 between units that are printed.
C5_Witness ==
    /\ HumanDone
    /\ idle_time = UnitMillis[1] + 2 * UnitMillis[4]
    /\ Len(ParseHuman(stdout)) = 2

\* C6: the magnitudes of the terms written, each times the size of its unit,
\* add up to the idle time.
C6_Lossless ==
    HumanDone =>
        /\ WellFormed(stdout)
        /\ SumTerms(ParseHuman(stdout)) = idle_time

\* An idle time of several units, some of several digits, was written.
C6_Witness ==
    /\ HumanDone
    /\ idle_time = 2 * UnitMillis[1] + 23 * UnitMillis[2] + 30 * UnitMillis[4] + 999
    /\ Len(ParseHuman(stdout)) = 4

\* The magnitude of unit u in the greedy largest-unit-first decomposition of m.
Greedy(m, u) == IF u = 1 THEN m \div UnitMillis[1]
                ELSE (m % UnitMillis[u - 1]) \div UnitMillis[u]

\* C7: the output is the greedy decomposition: the terms are in strictly
\* descending unit order, each "<magnitude> <unit>" with a trailing "s"
\* exactly when the magnitude is not 1, joined by ", " and nothing else; a
\* unit has a term exactly when its greedy magnitude is not 0, and the term
\* carries that magnitude; 0 gives "0 milliseconds".
C7_GreedyFormat ==
    HumanDone =>
        LET ts == ParseHuman(stdout)
        IN  /\ WellFormed(stdout)
            /\ \A j, k \in DOMAIN ts : j < k => ts[j].unit < ts[k].unit
            /\ \A k \in DOMAIN ts : ts[k].plural <=> ts[k].mag # 1
            /\ idle_time > 0 =>
                   \A u \in DOMAIN UnitMillis :
                       /\ Greedy(idle_time, u) # 0 <=> \E k \in DOMAIN ts : ts[k].unit = u
                       /\ \A k \in DOMAIN ts :
                              ts[k].unit = u => ts[k].mag = Greedy(idle_time, u)
            /\ idle_time = 0 =>
                   stdout = <<"0", " ", "m", "i", "l", "l", "i", "s", "e", "c", "o", "n", "d", "s", NL>>
            /\ idle_time = 1 =>
                   stdout = <<"1", " ", "m", "i", "l", "l", "i", "s", "e", "c", "o", "n", "d", NL>>
            /\ idle_time = 2000 =>
                   stdout = <<"2", " ", "s", "e", "c", "o", "n", "d", "s", NL>>
            /\ idle_time = 90000 =>
                   stdout = <<"1", " ", "m", "i", "n", "u", "t", "e", ",", " ",
                              "3", "0", " ", "s", "e", "c", "o", "n", "d", "s", NL>>
            /\ idle_time = 90061001 =>
                   stdout = <<"1", " ", "d", "a", "y", ",", " ", "1", " ", "h", "o", "u", "r", ",", " ",
                              "1", " ", "m", "i", "n", "u", "t", "e", ",", " ",
                              "1", " ", "s", "e", "c", "o", "n", "d", ",", " ",
                              "1", " ", "m", "i", "l", "l", "i", "s", "e", "c", "o", "n", "d", NL>>

\* "1 minute, 30 seconds": a singular and a plural term, joined.
C7_Witness ==
    /\ HumanDone
    /\ idle_time = 90000
    /\ ParseHuman(stdout) = <<[unit |-> 3, mag |-> 1, plural |-> FALSE],
                              [unit |-> 4, mag |-> 30, plural |-> TRUE]>>

---------------------------------------------------------------------------
(* Help and version *)

\* C8: with -h/--help or -v/--version as first argument no collaborator call
\* is ever made (no open, no allocation, no query), and the process exits
\* with status 1 for help and 0 for version.
C8_HelpVersionNoQuery ==
    /\ (HelpGiven \/ VersionGiven) =>
           /\ calls = <<>>
           /\ dpy = "NULL"
           /\ ssi = "NULL"
           /\ pc \in {"start", "done"}
    /\ (HelpGiven /\ pc = "done") => exit_code = 1
    /\ (VersionGiven /\ pc = "done") => exit_code = 0

\* Help was asked for and the process has ended.
C8_Witness ==
    /\ HelpGiven
    /\ pc = "done"
    /\ exit_code = 1
    /\ stdout # <<>>

---------------------------------------------------------------------------
(* Standard output *)

\* C9 as stated: every invocation that writes to standard output writes
\* exactly one line; in raw mode the line is the decimal idle value.
C9_OneLine ==
    /\ (pc = "done" /\ stdout # <<>>) => OneLine(stdout)
    /\ RawDone => /\ IsNumeral(SubSeq(stdout, 1, Len(stdout) - 1))
                  /\ NumeralVal(SubSeq(stdout, 1, Len(stdout) - 1)) = idle_time

\* C9, amended: version, a successful raw query and a successful
\* human-readable query write exactly one line, in raw mode the decimal idle
\* value; help writes the usage text, which is 9 lines.
C9_OneLineButHelp ==
    /\ (pc = "done" /\ stdout # <<>> /\ ~HelpGiven) => OneLine(stdout)
    /\ (pc = "done" /\ (VersionGiven \/ RawDone \/ HumanDone)) => OneLine(stdout)
    /\ (pc = "done" /\ HelpGiven) =>
           /\ Lines(stdout) = 9
           /\ stdout[Len(stdout)] = NL
    /\ RawDone => /\ IsNumeral(SubSeq(stdout, 1, Len(stdout) - 1))
                  /\ NumeralVal(SubSeq(stdout, 1, Len(stdout) - 1)) = idle_time

\* A raw query of an idle time of several digits has been printed.
C9_Witness ==
    /\ RawDone
    /\ idle_time = 23 * UnitMillis[2] + 999
    /\ OneLine(stdout)

---------------------------------------------------------------------------
(* Order of the collaborator calls *)

CallOrder == <<"XOpenDisplay", "XScreenSaverAllocInfo", "XDefaultRootWindow",
               "XScreenSaverQueryInfo", "ssi.contents.idle", "XFree", "XCloseDisplay">>

Rank(fn) == CHOOSE r \in DOMAIN CallOrder : CallOrder[r] = fn

UsesDisplay == {"XDefaultRootWindow", "XScreenSaverQueryInfo", "XCloseDisplay"}

UsesBuffer == {"XScreenSaverQueryInfo", "ssi.contents.idle", "XFree"}

\* C10: the calls made are among open, allocate, root window, query, read
\* idle, free, close, in that order and each at most once; a call on the
\* connection follows a successful open and precedes the close, a call on the
\* buffer follows a successful allocation and precedes (or is) the free, the
\* idle field is read only after a successful query, and after a failed call
\* only releases follow.
C10_CallOrder ==
    /\ \A k \in DOMAIN calls : calls[k].fn \in { CallOrder[r] : r \in DOMAIN CallOrder }
    /\ \A j, k \in DOMAIN calls : j < k => Rank(calls[j].fn) < Rank(calls[k].fn)
    /\ \A k \in DOMAIN calls :
           /\ (calls[k].fn \in UsesDisplay \/ calls[k].fn = "XScreenSaverAllocInfo") =>
                  /\ \E j \in 1..(k - 1) : calls[j] = Call("XOpenDisplay", TRUE)
                  /\ \A j \in 1..(k - 1) : calls[j].fn # "XCloseDisplay"
           /\ calls[k].fn \in UsesBuffer =>
                  /\ \E j \in 1..(k - 1) : calls[j] = Call("XScreenSaverAllocInfo", TRUE)
                  /\ \A j \in 1..(k - 1) : calls[j].fn # "XFree"
           /\ calls[k].fn = "ssi.contents.idle" =>
                  \E j \in 1..(k - 1) : calls[j] = Call("XScreenSaverQueryInfo", TRUE)
           /\ ~calls[k].ok =>
                  \A j \in (k + 1)..Len(calls) : calls[j].fn \in {"XFree", "XCloseDisplay"}

\* A successful run has made all seven calls.
C10_Witness ==
    /\ pc = "done"
    /\ Len(calls) = Len(CallOrder)
    /\ \A k \in DOMAIN calls : calls[k] = Call(CallOrder[k], TRUE)

=============================================================================
